---- MODULE Spec2Model ----
(***************************************************************************)
(* Capture-and-submit pipeline of the WattU citizen report form.           *)
(*                                                                         *)
(* The repository holds two versions of the SignalementForm component:     *)
(*   "inline"  the form with the photo section inside the page             *)
(*             (src/unnamed/part_016)                                      *)
(*   "sheet"   the form with the location confirmation card, the manual    *)
(*             location picker and the photo bottom sheet                  *)
(*             (src/unnamed/part_017)                                      *)
(* The variable `variant` says which one a behaviour is about.             *)
(*                                                                         *)
(* React state is modelled by one variable per useState cell.  A handler   *)
(* is one action: the state updates it batches and the effects that the    *)
(* following render runs are part of the same step.  An awaited call       *)
(* splits a handler in two actions.                                        *)
(***************************************************************************)
EXTENDS Integers, Sequences, FiniteSets, TLC

VARIABLES
  variant,            \* which SignalementForm: "inline" | "sheet"
  \* ---- SignalementForm state (useState cells)
  step,               \* 'idle' | 'recording' | 'location' | 'photo' | 'submitting'
  reportType,         \* '' or the chosen type
  position,           \* null or {lat, lng}
  isManualPosition,
  isSubmitting,
  submitError,        \* null or the message shown
  showSuccess,
  showManualLocation, \* sheet form only
  locationConfirmed,  \* sheet form only
  showPhotoSheet,     \* sheet form only
  selectedPhotoFile,  \* sheet form only
  \* ---- useImageUpload (inline form only)
  imageFile,
  \* ---- useAudioRecording
  isRecording,
  audioBlob,
  \* ---- useGeolocation
  geoPosition,        \* null or {latitude, longitude, accuracy}
  geoLoading,
  geoError,           \* null or the typed error code
  geoPending,         \* a position request is in flight
  \* ---- PhotoBottomSheet
  sheetLive,          \* the sheet is on screen and takes taps
  \* ---- the handleSubmit invocation suspended at its await
  sub,
  \* ---- history of the run, read by the properties only
  calls,              \* backend calls issued since the submission in flight began
  ignoredTrigger,     \* a submit trigger was dropped by the re-entrancy guard
  draftGeo,           \* auto-capture outcome of the current draft: "none" | "ok" | "failed"
  manualPos,          \* the manual position placed for the current draft, or null
  \* ---- storageApi / reportApi called on their own
  api,                \* the last call: its argument, what it sent to the backend,
                      \* the backend's answer and what it returned
  \* ---- AuthProvider (useState cells and the isInitialized ref)
  authUser,           \* user: null or the profile
  loading,
  authError,          \* error: null or the message
  hasSession,
  isInitialized,      \* isInitialized.current
  \* ---- the auth client and the calls of AuthProvider suspended at an await
  session,            \* the session the auth client holds, or null
  events,             \* notifications emitted and not yet handed to the listener
  checks,             \* the checkAuth invocations in flight
  authOp,             \* "none" | "login" | "logout": the login()/logout() in flight
  \* ---- history of the run, read by the properties only
  lastEvent,          \* the last notification handed to the listener
  cleared,            \* a sign-out was processed, and since then no login succeeded
                      \* and no check started after it found a session
  \* ---- the audio recorder and the position request, on their clocks
  recorder,           \* {status, duration, blob}
  gps,                \* {pending, elapsed, error}
  \* ---- useGeolocation on its own: any caller of getCurrentPosition
  geo                 \* the hook's cells, the requests in flight, the last callback

formVars  == <<step, reportType, position, isManualPosition, isSubmitting,
               submitError, showSuccess>>
sheetVars == <<showManualLocation, locationConfirmed, showPhotoSheet,
               selectedPhotoFile, sheetLive>>
audioVars == <<isRecording, audioBlob>>
geoVars   == <<geoPosition, geoLoading, geoError, geoPending>>
histVars  == <<calls, ignoredTrigger, draftGeo, manualPos>>
pageVars == <<variant, formVars, sheetVars, imageFile, audioVars, geoVars, sub, histVars>>
\* the state outside the SignalementForm page
authVars == <<authUser, loading, authError, hasSession, isInitialized, session,
              events, checks, authOp, lastEvent, cleared>>
clockVars == <<recorder, gps>>
libVars == <<api, authVars, clockVars, geo>>
vars == <<pageVars, libVars>>

----------------------------------------------------------------------------
(* Values *)

\* JavaScript null, for a string-valued cell and for an object-valued cell.
NoValue  == "null"
NoObject == [null |-> TRUE]

\* x || null on a string
OrNull(x) == IF x = "" \/ x = NoValue THEN NoValue ELSE x

ReportTypes == {"voirie", "eau"}

\* What navigator.geolocation can report, and what the user can place by hand.
GeoFixes    == { [latitude |-> 14, longitude |-> -17, accuracy |-> 10] }
ManualPicks == { [lat |-> 13, lng |-> -15] }
GeoErrorCodes == {"PERMISSION_DENIED", "POSITION_UNAVAILABLE", "TIMEOUT"}

\* A media type is the sequence of its ';'-separated segments, a file name the
\* sequence of its '.'-separated parts.  A Blob or File is {type, size, name};
\* the size is in MB.
RecorderBlobs == { [type |-> <<"audio/webm", "codecs=opus">>, size |-> 1, name |-> <<>>],
                   [type |-> <<"audio/mp4">>, size |-> 1, name |-> <<>>] }
PhotoFiles    == { [type |-> <<"image/jpeg">>, size |-> 2, name |-> <<"photo", "jpg">>] }

\* The profile of the server session (AuthContext user) and the device-local
\* voice identity (localStorage 'voiceUser'), as handleSubmit finds them.
SessionUsers ==
  { NoObject,
    [id |-> "u1", name |-> "Fatou Sow", phone |-> "770000001",
     commune_id |-> "dakar", email |-> "fatou@wattu.sn"] }
VoiceUsers ==
  { NoObject,
    [id |-> "v1", prenom |-> "Awa", name |-> "Ba", phone |-> "780000002",
     authenticated |-> TRUE],
    [id |-> "v1", prenom |-> "Awa", name |-> "Ba", phone |-> "780000002",
     authenticated |-> FALSE] }

\* obj?.field
Get(obj, field) == IF obj = NoObject THEN NoValue ELSE obj[field]

----------------------------------------------------------------------------
(* AuthContext: the device-local identity *)

getVoiceUser(stored) == stored

isVoiceAuthenticated(stored) ==
  LET voiceUser == getVoiceUser(stored)
  IN  voiceUser # NoObject /\ voiceUser.authenticated = TRUE

----------------------------------------------------------------------------
(* SignalementForm: validateData *)

\* validateData without the check of the type
validateData_NoTypeCheck(type, blob, pos) ==
  IF blob = NoObject     THEN [valid |-> FALSE, error |-> "errors.audio_required"]
  ELSE IF pos = NoObject THEN [valid |-> FALSE, error |-> "errors.position_required"]
  ELSE [valid |-> TRUE, error |-> NoValue]

\* validateData with the position checked before the audio
validateData_PositionFirst(type, blob, pos) ==
  IF type = ""            THEN [valid |-> FALSE, error |-> "errors.type_required"]
  ELSE IF pos = NoObject  THEN [valid |-> FALSE, error |-> "errors.position_required"]
  ELSE IF blob = NoObject THEN [valid |-> FALSE, error |-> "errors.audio_required"]
  ELSE [valid |-> TRUE, error |-> NoValue]

validateData(type, blob, pos) ==
  IF type = ""            THEN [valid |-> FALSE, error |-> "errors.type_required"]
  ELSE IF blob = NoObject THEN [valid |-> FALSE, error |-> "errors.audio_required"]
  ELSE IF pos = NoObject  THEN [valid |-> FALSE, error |-> "errors.position_required"]
  ELSE [valid |-> TRUE, error |-> NoValue]

----------------------------------------------------------------------------
(* SignalementForm: handleSubmit, the synchronous part that builds submitData *)

ALLOWED_AUDIO_TYPES == {"audio/webm", "audio/mpeg", "audio/mp3", "audio/wav", "audio/ogg"}
ALLOWED_IMAGE_TYPES == {"image/jpeg", "image/jpg", "image/png", "image/webp"}

\* audioBlob.type || 'audio/webm', cut at the first ';', replaced by
\* 'audio/webm' when it is not an allowed type
normalizedMimeType(blob) ==
  LET raw  == IF blob.type = <<>> THEN "audio/webm" ELSE Head(blob.type)
  IN  IF raw \in ALLOWED_AUDIO_TYPES THEN raw ELSE "audio/webm"

\* new File([audioBlob], `audio-${Date.now()}.webm`, {type: normalizedMimeType});
\* a file name is the sequence of its '.'-separated parts
audioFile(blob) ==
  [type |-> <<normalizedMimeType(blob)>>, size |-> blob.size,
   name |-> <<"audio-T", "webm">>]

\* `${voiceUser?.prenom || ''} ${voiceUser?.name || ''}`.trim()
voiceFullName(voiceUser) ==
  LET prenom == IF Get(voiceUser, "prenom") = NoValue THEN "" ELSE voiceUser.prenom
      name   == IF Get(voiceUser, "name") = NoValue THEN "" ELSE voiceUser.name
  IN  IF prenom = "" THEN name
      ELSE IF name = "" THEN prenom
      ELSE prenom \o " " \o name

PhoneOf(isVoice, user, voiceUser) ==
  IF isVoice THEN OrNull(Get(voiceUser, "phone")) ELSE OrNull(Get(user, "phone"))

\* the name taken from the session profile whenever there is one
CitizenNameOf_SessionFirst(isVoice, user, voiceUser) ==
  IF user # NoObject THEN OrNull(Get(user, "name")) ELSE voiceFullName(voiceUser)

CitizenNameOf(isVoice, user, voiceUser) ==
  IF isVoice THEN voiceFullName(voiceUser) ELSE OrNull(Get(user, "name"))

CitizenUserIdOf(isVoice, user, voiceUser) ==
  IF isVoice THEN Get(voiceUser, "id") ELSE OrNull(Get(user, "id"))

CommuneIdOf(isVoice, user, voiceUser) == OrNull(Get(user, "commune_id"))

submitData(type, pos, blob, finalPhotoFile, user, stored) ==
  LET voiceUser == getVoiceUser(stored)
      isVoice   == isVoiceAuthenticated(stored)
  IN  [ type            |-> IF type = "" THEN "autre" ELSE type,
        description     |-> NoValue,
        latitude        |-> pos.lat,
        longitude       |-> pos.lng,
        commune_id      |-> CommuneIdOf(isVoice, user, voiceUser),
        phone           |-> PhoneOf(isVoice, user, voiceUser),
        citizen_name    |-> CitizenNameOf(isVoice, user, voiceUser),
        email           |-> OrNull(Get(user, "email")),
        citizen_user_id |-> CitizenUserIdOf(isVoice, user, voiceUser),
        imageFile       |-> finalPhotoFile,
        audioBlob       |-> audioFile(blob) ]

----------------------------------------------------------------------------
(* storageApi *)

MAX_FILE_SIZE       == 5
MAX_AUDIO_FILE_SIZE == 10

\* What the storage backend answers to an upload, and the persistence layer
\* to an insert.
StorageOutcomes ==
  { [kind |-> "ok"],
    [kind |-> "error", message |-> "Bucket not found", statusCode |-> 404],
    [kind |-> "error", message |-> "Payload too large", statusCode |-> 413],
    [kind |-> "throw", message |-> "Failed to fetch"] }
InsertOutcomes ==
  { [kind |-> "ok"],
    [kind |-> "error", message |-> "new row violates row-level security policy"],
    [kind |-> "throw", message |-> "Failed to fetch"] }

Failure(message, code) ==
  [url |-> NoValue, path |-> NoValue, error |-> [message |-> message, code |-> code]]

\* The media types a declared type can name; a segment of a declared type is
\* one of them, possibly with white space around it, or a parameter.
MediaTypes == ALLOWED_AUDIO_TYPES \cup ALLOWED_IMAGE_TYPES \cup {"audio/mp4", "image/gif", "text/plain"}

\* segment.trim()
TrimSegment(segment) ==
  LET padded(t) == {" " \o t, t \o " ", " " \o t \o " "}
  IN  IF \E t \in MediaTypes : segment \in padded(t)
        THEN CHOOSE t \in MediaTypes : segment \in padded(t)
        ELSE segment

getAudioExtension(mimeType) ==
  CASE mimeType \in {"audio/mpeg", "audio/mp3"} -> "mp3"
    [] mimeType = "audio/wav" -> "wav"
    [] mimeType = "audio/ogg" -> "ogg"
    [] OTHER -> "webm"

\* file.name.split('.').pop()
LastPart(name) == IF name = <<>> THEN "" ELSE name[Len(name)]

\* message.includes('Bucket not found') || includes('not found') ||
\* includes('does not exist') || statusCode === 404
IsBucketNotFound(err) ==
  \/ err.message \in {"Bucket not found", "Object not found", "Bucket does not exist"}
  \/ err.statusCode = 404

PublicUrl(bucket, filePath) == "https://storage/" \o bucket \o "/" \o filePath

\* return { url: null, path: null, error }: the backend's error as it came
PassedThrough(backend) ==
  [url |-> NoValue, path |-> NoValue,
   error |-> [message |-> backend.message, statusCode |-> backend.statusCode]]

\* the type compared with the whitelist as it is declared, parameters included
audioMimeType_NotStripped(file) ==
  IF file.type = <<>> THEN "audio/webm"
  ELSE IF Len(file.type) = 1 THEN Head(file.type)
  ELSE Head(file.type) \o ";" \o file.type[2]

\* let mimeType = file.type || 'audio/webm';
\* if (mimeType.includes(';')) mimeType = mimeType.split(';')[0].trim();
audioMimeType(file) ==
  IF file.type = <<>> THEN "audio/webm"
  ELSE IF Len(file.type) > 1 THEN TrimSegment(Head(file.type))
  ELSE Head(file.type)

\* uploadReportAudio that takes the size ceiling of the images
uploadReportAudioCall_ImageCeiling(file) ==
  IF file = NoObject
    THEN [returned |-> Failure("Aucun fichier audio fourni", "NO_AUDIO_FILE")]
  ELSE IF audioMimeType(file) \notin ALLOWED_AUDIO_TYPES
    THEN [returned |-> Failure("Type audio non autorise", "INVALID_AUDIO_TYPE")]
  ELSE IF file.size > MAX_FILE_SIZE
    THEN [returned |-> Failure("Audio trop volumineux (max 10MB)", "AUDIO_TOO_LARGE")]
  ELSE [upload |-> [bucket |-> "report-audio", filePath |-> "records/temp-T-T.webm",
                    contentType |-> audioMimeType(file)]]

\* uploadReportAudio up to its await: what it returns without calling the
\* storage, or the upload it issues
uploadReportAudioCall(file) ==
  IF file = NoObject
    THEN [returned |-> Failure("Aucun fichier audio fourni", "NO_AUDIO_FILE")]
  ELSE
    LET mimeType  == audioMimeType(file)
        extension == IF LastPart(file.name) # "" THEN LastPart(file.name)
                     ELSE getAudioExtension(mimeType)
    IN  IF mimeType \notin ALLOWED_AUDIO_TYPES
          THEN [returned |-> Failure("Type audio non autorise", "INVALID_AUDIO_TYPE")]
        ELSE IF file.size > MAX_AUDIO_FILE_SIZE
          THEN [returned |-> Failure("Audio trop volumineux (max 10MB)", "AUDIO_TOO_LARGE")]
        ELSE [upload |-> [bucket |-> "report-audio",
                          filePath |-> "records/temp-T-T." \o extension,
                          contentType |-> mimeType]]

\* uploadReportAudio that drops the backend's error
uploadReportAudio_ErrorDropped(file, backend) ==
  IF file = NoObject THEN Failure("Aucun fichier audio fourni", "NO_AUDIO_FILE")
  ELSE IF backend.kind = "ok"
    THEN [url |-> PublicUrl("report-audio", "records/temp-T-T.webm"),
          path |-> "records/temp-T-T.webm", error |-> NoObject]
    ELSE [url |-> NoValue, path |-> NoValue, error |-> NoObject]

uploadReportAudio(file, backend) ==
  LET call == uploadReportAudioCall(file)
  IN  IF "returned" \in DOMAIN call THEN call.returned
      ELSE IF backend.kind = "throw"
        THEN Failure(backend.message, "UNEXPECTED_ERROR")
      ELSE IF backend.kind = "error"
        THEN IF IsBucketNotFound(backend)
               THEN Failure("Le bucket de stockage audio n'existe pas", "BUCKET_NOT_FOUND")
               ELSE PassedThrough(backend)
      ELSE [url |-> PublicUrl("report-audio", call.upload.filePath),
            path |-> call.upload.filePath, error |-> NoObject]

\* uploadReportImage up to its await
uploadReportImageCall(file) ==
  IF file = NoObject
    THEN [returned |-> Failure("Aucun fichier fourni", "NO_FILE")]
  ELSE IF Len(file.type) # 1 \/ Head(file.type) \notin ALLOWED_IMAGE_TYPES
    THEN [returned |-> Failure("Type de fichier non autorise", "INVALID_FILE_TYPE")]
  ELSE IF file.size > MAX_FILE_SIZE
    THEN [returned |-> Failure("Fichier trop volumineux (max 5MB)", "FILE_TOO_LARGE")]
  ELSE IF file.name = <<>>
    \* file.name.split on a Blob, which has no name: the TypeError is caught
    THEN [returned |-> Failure("Cannot read properties of undefined",
                               "UNEXPECTED_ERROR")]
  ELSE [upload |-> [bucket |-> "report-images",
                    filePath |-> "reports/temp-T-T." \o LastPart(file.name)]]

uploadReportImage(file, backend) ==
  LET call == uploadReportImageCall(file)
  IN  IF "returned" \in DOMAIN call THEN call.returned
      ELSE IF backend.kind = "throw"
        THEN Failure(backend.message, "UNEXPECTED_ERROR")
      ELSE IF backend.kind = "error"
        THEN PassedThrough(backend)
      ELSE [url |-> PublicUrl("report-images", call.upload.filePath),
            path |-> call.upload.filePath, error |-> NoObject]

----------------------------------------------------------------------------
(* reportApi: createReport *)

\* !reportData.field for a number: undefined (no such field) or 0
FalsyNumber(reportData, field) ==
  field \notin DOMAIN reportData \/ reportData[field] = 0

\* the row with a status of its own
InsertedRow_WithStatus(reportData) ==
  [ type         |-> reportData.type,
    description  |-> OrNull(reportData.description),
    latitude     |-> reportData.latitude,
    longitude    |-> reportData.longitude,
    commune_id   |-> OrNull(reportData.commune_id),
    image_url    |-> OrNull(reportData.image_url),
    audio_url    |-> OrNull(reportData.audio_url),
    phone        |-> OrNull(reportData.phone),
    citizen_name |-> OrNull(reportData.citizen_name),
    status       |-> "in_progress" ]

\* the row the insert writes
InsertedRow(reportData) ==
  [ type         |-> reportData.type,
    description  |-> OrNull(reportData.description),
    latitude     |-> reportData.latitude,
    longitude    |-> reportData.longitude,
    commune_id   |-> OrNull(reportData.commune_id),
    image_url    |-> OrNull(reportData.image_url),
    audio_url    |-> OrNull(reportData.audio_url),
    phone        |-> OrNull(reportData.phone),
    citizen_name |-> OrNull(reportData.citizen_name) ]

\* the stored row: the database adds the id and the defaults of the columns
\* the insert did not write
StoredRow(row) ==
  [ id       |-> "r1",
    status   |-> IF "status" \in DOMAIN row THEN row.status ELSE "pending",
    priority |-> IF "priority" \in DOMAIN row THEN row.priority ELSE "normal",
    row      |-> row ]

\* createReport up to its await: what it returns without an insert, or the
\* insert it issues
createReportCall(reportData) ==
  IF reportData = NoObject
    \* reportData.type on null: the TypeError is caught
    THEN [returned |->
            [data |-> NoObject,
             error |-> [message |-> "Cannot read properties of null",
                        code |-> "UNEXPECTED_ERROR"]]]
  ELSE IF reportData.type = "" \/ reportData.type = NoValue
     \/ FalsyNumber(reportData, "latitude") \/ FalsyNumber(reportData, "longitude")
    THEN [returned |->
            [data |-> NoObject,
             error |-> [message |-> "Type, latitude et longitude sont obligatoires",
                        code |-> "MISSING_REQUIRED_FIELDS"]]]
    ELSE [insert |-> InsertedRow(reportData)]

\* createReport without its try/catch: the exception of the backend call
\* reaches the caller
createReport_NoCatch(reportData, backend) ==
  LET call == createReportCall(reportData)
  IN  IF "returned" \in DOMAIN call THEN call.returned
      ELSE IF backend.kind = "throw"
        THEN [threw |-> backend.message]
      ELSE IF backend.kind = "error"
        THEN [data |-> NoObject, error |-> [message |-> backend.message]]
      ELSE [data |-> StoredRow(call.insert), error |-> NoObject]

createReport(reportData, backend) ==
  LET call == createReportCall(reportData)
  IN  IF "returned" \in DOMAIN call THEN call.returned
      ELSE IF backend.kind = "throw"
        THEN [data |-> NoObject,
              error |-> [message |-> backend.message, code |-> "UNEXPECTED_ERROR"]]
      ELSE IF backend.kind = "error"
        THEN [data |-> NoObject, error |-> [message |-> backend.message]]
      ELSE [data |-> StoredRow(call.insert), error |-> NoObject]

----------------------------------------------------------------------------
(* AuthProvider *)

\* the session the auth client holds for the signed-in user
AuthSession == [user |-> [id |-> "u1", email |-> "fatou@wattu.sn"]]

\* the profile authService returns for it
AuthProfile ==
  [id |-> "u1", name |-> "Fatou Sow", phone |-> "770000001",
   commune_id |-> "dakar", email |-> "fatou@wattu.sn", role |-> "agent"]

\* checkAuth: the profile built from the session when getCurrentUser has none
MinimalProfile(s) ==
  [id |-> s.user.id, email |-> s.user.email, name |-> "fatou", role |-> "citizen",
   commune_id |-> NoValue, age |-> NoValue, phone |-> NoValue]

MaxEvents == 2
MaxChecks == 2

Notification(event, s) == [event |-> event, session |-> s]

\* checkAuth() up to its first await: setLoading(true), getSession() pending
NewCheck(origin) == [pc |-> "getSession", origin |-> origin, stale |-> FALSE]

\* AuthProvider after its mount effects ran: checkAuth() is in flight and the
\* listener is subscribed; the auth client holds a persisted session and has
\* not yet emitted a notification
AuthMounted ==
  /\ authUser = NoObject
  /\ loading = TRUE
  /\ authError = NoValue
  /\ hasSession = FALSE
  /\ isInitialized = FALSE
  /\ session = AuthSession
  /\ events = <<>>
  /\ checks = <<NewCheck("mount")>>
  /\ authOp = "none"
  /\ lastEvent = NoObject
  /\ cleared = FALSE

IdleRecorder == [status |-> "idle", duration |-> 0, blob |-> NoObject]
IdleCapture  == [pending |-> FALSE, elapsed |-> 0, error |-> NoValue]

\* useGeolocation as constructed: its useState cells, before its effect ran
HookConstructed ==
  [position |-> NoObject, loading |-> FALSE, error |-> NoValue,
   isSupported |-> FALSE, mounted |-> FALSE,
   requests |-> <<>>, issued |-> 0, last |-> NoObject]

----------------------------------------------------------------------------
(* The state after the component mounted *)

NoSub     == [pc |-> "none"]
NoCall    == [op |-> "none"]
ZeroCalls == [audio |-> 0, image |-> 0, create |-> 0]

Init ==
  /\ variant \in {"inline", "sheet"}
  /\ step = "idle"
  /\ reportType = ""
  /\ position = NoObject
  /\ isManualPosition = FALSE
  /\ isSubmitting = FALSE
  /\ submitError = NoValue
  /\ showSuccess = FALSE
  /\ showManualLocation = FALSE
  /\ locationConfirmed = FALSE
  /\ showPhotoSheet = FALSE
  /\ selectedPhotoFile = NoObject
  /\ imageFile = NoObject
  /\ isRecording = FALSE
  /\ audioBlob = NoObject
  /\ geoPosition = NoObject
  /\ geoLoading = FALSE
  /\ geoError = NoValue
  /\ geoPending = FALSE
  /\ sheetLive = FALSE
  /\ sub = NoSub
  /\ calls = ZeroCalls
  /\ ignoredTrigger = FALSE
  /\ draftGeo = "none"
  /\ manualPos = NoObject
  /\ api = NoCall
  /\ AuthMounted
  /\ recorder = IdleRecorder
  /\ gps = IdleCapture
  /\ geo = HookConstructed

----------------------------------------------------------------------------
(* The effect that copies the captured position into the draft *)

\* the effect without its test of isManualPosition
PositionEffect_ManualIgnored(v, geoPos, manual, st, blob, rec, pos) ==
  IF geoPos # NoObject
    THEN [ position |-> [lat |-> geoPos.latitude, lng |-> geoPos.longitude],
           step     |-> IF v = "inline" /\ st = "location" /\ blob # NoObject /\ ~rec
                          THEN "photo" ELSE st ]
    ELSE [ position |-> pos, step |-> st ]

\* the body of the effect
PositionEffect(v, geoPos, manual, st, blob, rec, pos) ==
  IF geoPos # NoObject /\ ~manual
    THEN [ position |-> [lat |-> geoPos.latitude, lng |-> geoPos.longitude],
           step     |-> IF v = "inline" /\ st = "location" /\ blob # NoObject /\ ~rec
                          THEN "photo" ELSE st ]
    ELSE [ position |-> pos, step |-> st ]

\* its dependency array, compared with the previous render; `fresh` says that
\* geolocation.position is a new object
DepsChanged(v, fresh, nGeo, nManual, nStep, nBlob, nRec) ==
  \/ fresh
  \/ nGeo # geoPosition
  \/ nManual # isManualPosition
  \/ v = "inline" /\ (nStep # step \/ nBlob # audioBlob \/ nRec # isRecording)

\* The render that follows a handler: the handler's updates are applied and
\* the effect runs when a dependency changed (a second run, triggered by the
\* step the effect itself set, changes nothing more).
Render(fresh, nPos, nStep, nGeo, nManual, nBlob, nRec) ==
  LET r == IF DepsChanged(variant, fresh, nGeo, nManual, nStep, nBlob, nRec)
             THEN PositionEffect(variant, nGeo, nManual, nStep, nBlob, nRec, nPos)
             ELSE [position |-> nPos, step |-> nStep]
  IN  /\ position' = r.position
      /\ step' = r.step
      /\ geoPosition' = nGeo
      /\ isManualPosition' = nManual
      /\ audioBlob' = nBlob
      /\ isRecording' = nRec

renderVars == <<position, step, geoPosition, isManualPosition, audioBlob, isRecording>>

----------------------------------------------------------------------------
(* handleSubmit up to its await, and resetForm *)

\* handleSubmit without its guard
AlreadySubmitting_NoGuard == FALSE

\* if (isSubmitting) return
AlreadySubmitting == isSubmitting

\* reportService.submitReport(submitData) starts with the audio upload
StartSubmission(data, user, stored) ==
  [ pc |-> "audio", payload |-> data, audio_url |-> NoValue, image_url |-> NoValue,
    user |-> user, stored |-> stored ]

\* Sets isSubmitting, submitError, sub, calls, ignoredTrigger and renderVars.
handleSubmit(photoFile, user, stored) ==
  LET validation     == validateData(reportType, audioBlob, position)
      fallbackFile   == IF variant = "inline" THEN imageFile ELSE selectedPhotoFile
      finalPhotoFile == IF photoFile # NoObject THEN photoFile ELSE fallbackFile
  IN  IF AlreadySubmitting THEN
        /\ ignoredTrigger' = TRUE
        /\ UNCHANGED <<isSubmitting, submitError, sub, calls, renderVars>>
      ELSE IF ~validation.valid THEN
        /\ submitError' = validation.error
        /\ UNCHANGED <<isSubmitting, sub, calls, ignoredTrigger, renderVars>>
      ELSE
        /\ isSubmitting' = TRUE
        /\ submitError' = NoValue
        /\ Render(FALSE, position, "submitting", geoPosition, isManualPosition,
                  audioBlob, isRecording)
        /\ sub' = StartSubmission(
                    submitData(reportType, position, audioBlob, finalPhotoFile,
                               user, stored), user, stored)
        /\ calls' = IF sub.pc = "none" THEN [ZeroCalls EXCEPT !.audio = 1]
                    ELSE [calls EXCEPT !.audio = @ + 1]
        /\ UNCHANGED ignoredTrigger

\* Sets renderVars, submitError, imageFile, the sheet form's cells and the
\* draft's history.
resetForm ==
  /\ Render(FALSE, NoObject, "idle", geoPosition, FALSE, NoObject, FALSE)
  /\ submitError' = NoValue
  /\ imageFile' = NoObject
  /\ selectedPhotoFile' = NoObject
  /\ showManualLocation' = FALSE
  /\ locationConfirmed' = FALSE
  /\ showPhotoSheet' = FALSE
  /\ draftGeo' = "none"
  /\ manualPos' = NoObject

----------------------------------------------------------------------------
(* What the page shows: the controls a user can act on *)

StartButtonEnabled   == ~isRecording /\ step \notin {"submitting", "photo"}
StopButtonShown      == isRecording
ResetButtonEnabled   == audioBlob # NoObject /\ ~isRecording /\ step # "submitting"
\* inline form
PhotoSectionShown    == step = "photo" /\ audioBlob # NoObject /\ position # NoObject
SubmitButtonEnabled  == PhotoSectionShown /\ ~isSubmitting
\* sheet form
LocationSectionShown == step = "location" /\ audioBlob # NoObject
LocationPickerShown  == LocationSectionShown /\ showManualLocation
\* LocationConfirmationCard offers its confirm button once a position is shown
ConfirmButtonShown   == LocationSectionShown /\ position # NoObject

----------------------------------------------------------------------------
(* Recording *)

\* geolocation.startAutoCapture(): one position request
startAutoCapture ==
  /\ geoLoading' = TRUE
  /\ geoError' = NoValue
  /\ geoPending' = TRUE

\* geolocation.cancelAutoCapture(): the request in flight is dropped
cancelAutoCapture ==
  /\ geoLoading' = FALSE
  /\ geoPending' = FALSE
  /\ UNCHANGED geoError

\* handleStartRecording without its tests of the permission and of the
\* recorder's answer
handleStartRecording_Unchecked(outcome) ==
  /\ StartButtonEnabled
  /\ Render(FALSE, position, "recording", geoPosition, isManualPosition,
            NoObject, TRUE)
  /\ locationConfirmed' = FALSE
  /\ showManualLocation' = FALSE
  /\ startAutoCapture
  /\ UNCHANGED <<libVars, variant, reportType, isSubmitting, submitError, showSuccess,
                 showPhotoSheet, selectedPhotoFile, sheetLive, imageFile, sub, histVars>>

\* outcome: "denied" when requestPermission answers 'denied', "refused" when
\* startRecording does not succeed, "started" otherwise
handleStartRecording(outcome) ==
  /\ StartButtonEnabled
  /\ IF outcome = "started"
       THEN /\ Render(FALSE, position, "recording", geoPosition, isManualPosition,
                      NoObject, TRUE)
            /\ locationConfirmed' = FALSE
            /\ showManualLocation' = FALSE
            /\ startAutoCapture
       ELSE UNCHANGED <<renderVars, locationConfirmed, showManualLocation,
                        geoLoading, geoError, geoPending>>
  /\ UNCHANGED <<libVars, variant, reportType, isSubmitting, submitError, showSuccess,
                 showPhotoSheet, selectedPhotoFile, sheetLive, imageFile, sub, histVars>>

handleStopRecording(blob) ==
  /\ StopButtonShown
  /\ IF variant = "inline"
       THEN /\ Render(FALSE, position,
                      IF position # NoObject THEN "photo" ELSE "location",
                      geoPosition, isManualPosition, blob, FALSE)
            /\ UNCHANGED <<geoLoading, geoError, geoPending>>
       ELSE /\ Render(FALSE, position, "location", geoPosition, isManualPosition,
                      blob, FALSE)
            /\ cancelAutoCapture
  /\ UNCHANGED <<libVars, variant, reportType, isSubmitting, submitError, showSuccess,
                 sheetVars, imageFile, sub, histVars>>

\* useAudioRecording stops by itself at maxDuration; no handler of the form runs
RecorderAutoStop(blob) ==
  /\ isRecording
  /\ Render(FALSE, position, step, geoPosition, isManualPosition, blob, FALSE)
  /\ UNCHANGED <<libVars, variant, reportType, isSubmitting, submitError, showSuccess,
                 sheetVars, imageFile, geoLoading, geoError, geoPending, sub, histVars>>

handleRetryRecording ==
  /\ ResetButtonEnabled
  /\ resetForm
  /\ UNCHANGED <<libVars, variant, reportType, isSubmitting, showSuccess, sheetLive,
                 geoLoading, geoError, geoPending, sub, calls, ignoredTrigger>>

setReportType(type) ==
  /\ reportType # type
  /\ reportType' = type
  /\ UNCHANGED <<libVars, variant, step, position, isManualPosition, isSubmitting, submitError,
                 showSuccess, sheetVars, imageFile, audioVars, geoVars, sub, histVars>>

----------------------------------------------------------------------------
(* useGeolocation: the callbacks of the position request *)

GeoSuccess(fix) ==
  /\ geoPending
  /\ Render(TRUE, position, step, fix, isManualPosition, audioBlob, isRecording)
  /\ geoLoading' = FALSE
  /\ geoError' = NoValue
  /\ geoPending' = FALSE
  /\ draftGeo' = "ok"
  /\ UNCHANGED <<libVars, variant, reportType, isSubmitting, submitError, showSuccess,
                 sheetVars, imageFile, sub, calls, ignoredTrigger, manualPos>>

GeoFailure(code) ==
  /\ geoPending
  /\ Render(FALSE, position, step, NoObject, isManualPosition, audioBlob, isRecording)
  /\ geoError' = code
  /\ geoLoading' = FALSE
  /\ geoPending' = FALSE
  /\ draftGeo' = IF draftGeo = "ok" THEN "ok" ELSE "failed"
  /\ UNCHANGED <<libVars, variant, reportType, isSubmitting, submitError, showSuccess,
                 sheetVars, imageFile, sub, calls, ignoredTrigger, manualPos>>

----------------------------------------------------------------------------
(* Sheet form: location confirmation, manual location, photo bottom sheet *)

handleToggleManualLocation ==
  /\ variant = "sheet"
  /\ LocationSectionShown
  /\ showManualLocation' = ~showManualLocation
  /\ Render(FALSE, position, step, geoPosition, TRUE, audioBlob, isRecording)
  /\ UNCHANGED <<libVars, variant, reportType, isSubmitting, submitError, showSuccess,
                 locationConfirmed, showPhotoSheet, selectedPhotoFile, sheetLive,
                 imageFile, geoLoading, geoError, geoPending, sub, histVars>>

\* Sets locationConfirmed, showPhotoSheet, sheetLive and renderVars.
handleLocationConfirmed(nPos, nManual) ==
  /\ locationConfirmed' = TRUE
  /\ Render(FALSE, nPos, "photo", geoPosition, nManual, audioBlob, isRecording)
  /\ showPhotoSheet' = TRUE
  /\ sheetLive' = TRUE

\* onConfirm of the LocationConfirmationCard
ConfirmLocation ==
  /\ variant = "sheet"
  /\ ConfirmButtonShown
  /\ handleLocationConfirmed(position, isManualPosition)
  /\ UNCHANGED <<libVars, variant, reportType, isSubmitting, submitError, showSuccess,
                 showManualLocation, selectedPhotoFile, imageFile,
                 geoLoading, geoError, geoPending, sub, histVars>>

\* onChange of the LocationPicker
PickLocation(pos) ==
  /\ variant = "sheet"
  /\ LocationPickerShown
  /\ handleLocationConfirmed(pos, TRUE)
  /\ manualPos' = pos
  /\ UNCHANGED <<libVars, variant, reportType, isSubmitting, submitError, showSuccess,
                 showManualLocation, selectedPhotoFile, imageFile,
                 geoLoading, geoError, geoPending, sub, calls, ignoredTrigger, draftGeo>>

\* onRetry of the LocationConfirmationCard
RetryAutoCapture ==
  /\ variant = "sheet"
  /\ LocationSectionShown
  /\ ~geoPending
  /\ startAutoCapture
  /\ UNCHANGED <<libVars, variant, formVars, sheetVars, imageFile, audioVars, geoPosition,
                 sub, histVars>>

handlePhotoSelected(file, user, stored) ==
  /\ variant = "sheet"
  /\ sheetLive
  /\ selectedPhotoFile' = file
  /\ showPhotoSheet' = FALSE
  /\ handleSubmit(file, user, stored)
  /\ UNCHANGED <<libVars, variant, reportType, showSuccess, showManualLocation,
                 locationConfirmed, sheetLive, imageFile,
                 geoLoading, geoError, geoPending, draftGeo, manualPos>>

handlePhotoSkipped(user, stored) ==
  /\ variant = "sheet"
  /\ sheetLive
  /\ showPhotoSheet' = FALSE
  /\ handleSubmit(NoObject, user, stored)
  /\ UNCHANGED <<libVars, variant, reportType, showSuccess, showManualLocation,
                 locationConfirmed, selectedPhotoFile, sheetLive, imageFile,
                 geoLoading, geoError, geoPending, draftGeo, manualPos>>

\* onClose of the PhotoBottomSheet
SheetDismissed ==
  /\ variant = "sheet"
  /\ sheetLive /\ showPhotoSheet
  /\ showPhotoSheet' = FALSE
  /\ UNCHANGED <<libVars, variant, formVars, showManualLocation, locationConfirmed,
                 selectedPhotoFile, sheetLive, imageFile, audioVars, geoVars,
                 sub, histVars>>

\* the closed sheet has left the screen
SheetClosed ==
  /\ variant = "sheet"
  /\ sheetLive /\ ~showPhotoSheet
  /\ sheetLive' = FALSE
  /\ UNCHANGED <<libVars, variant, formVars, showManualLocation, locationConfirmed,
                 showPhotoSheet, selectedPhotoFile, imageFile, audioVars, geoVars,
                 sub, histVars>>

----------------------------------------------------------------------------
(* Inline form: photo section and submit button *)

selectImage(file) ==
  /\ variant = "inline"
  /\ PhotoSectionShown
  /\ imageFile = NoObject
  /\ imageFile' = file
  /\ UNCHANGED <<libVars, variant, formVars, sheetVars, audioVars, geoVars, sub, histVars>>

removeImage ==
  /\ variant = "inline"
  /\ PhotoSectionShown
  /\ imageFile # NoObject
  /\ imageFile' = NoObject
  /\ UNCHANGED <<libVars, variant, formVars, sheetVars, audioVars, geoVars, sub, histVars>>

SubmitButton(user, stored) ==
  /\ variant = "inline"
  /\ SubmitButtonEnabled
  /\ handleSubmit(NoObject, user, stored)
  /\ UNCHANGED <<libVars, variant, reportType, showSuccess, sheetVars, imageFile,
                 geoLoading, geoError, geoPending, draftGeo, manualPos>>

CloseSuccess ==
  /\ showSuccess
  /\ showSuccess' = FALSE
  /\ UNCHANGED <<libVars, variant, step, reportType, position, isManualPosition, isSubmitting,
                 submitError, sheetVars, imageFile, audioVars, geoVars, sub, histVars>>

----------------------------------------------------------------------------
(* reportService.submitReport and the rest of handleSubmit *)

\* what submitReport passes to createReport: the URLs replace the blobs
CreateRequest(s) ==
  [ type         |-> s.payload.type,
    description  |-> s.payload.description,
    latitude     |-> s.payload.latitude,
    longitude    |-> s.payload.longitude,
    commune_id   |-> s.payload.commune_id,
    phone        |-> s.payload.phone,
    citizen_name |-> s.payload.citizen_name,
    image_url    |-> s.image_url,
    audio_url    |-> s.audio_url ]

\* if (result.error) { setSubmitError(...); return } ... finally
SubmitFailed(message) ==
  /\ submitError' = message
  /\ isSubmitting' = FALSE
  /\ sub' = NoSub
  /\ calls' = ZeroCalls
  /\ ignoredTrigger' = FALSE
  /\ UNCHANGED <<libVars, variant, step, reportType, position, isManualPosition, showSuccess,
                 sheetVars, imageFile, audioVars, geoVars, draftGeo, manualPos>>

\* setCreatedReport; setShowSuccess(true); resetForm() ... finally
SubmitSucceeded ==
  /\ showSuccess' = TRUE
  /\ resetForm
  /\ isSubmitting' = FALSE
  /\ sub' = NoSub
  /\ calls' = ZeroCalls
  /\ ignoredTrigger' = FALSE
  /\ UNCHANGED <<libVars, variant, reportType, sheetLive, geoLoading, geoError, geoPending>>

\* the next call of submitReport is issued
Proceed(next, field, url) ==
  /\ sub' = [sub EXCEPT !.pc = next, ![field] = url]
  /\ calls' = [calls EXCEPT ![next] = @ + 1]
  /\ UNCHANGED <<libVars, variant, formVars, sheetVars, imageFile, audioVars, geoVars,
                 ignoredTrigger, draftGeo, manualPos>>

AudioUploaded(backend) ==
  /\ sub.pc = "audio"
  /\ LET r == uploadReportAudio(sub.payload.audioBlob, backend)
     IN  IF r.error # NoObject THEN SubmitFailed(r.error.message)
         ELSE Proceed(IF sub.payload.imageFile # NoObject THEN "image" ELSE "create",
                      "audio_url", r.url)

ImageUploaded(backend) ==
  /\ sub.pc = "image"
  /\ LET r == uploadReportImage(sub.payload.imageFile, backend)
     IN  IF r.error # NoObject THEN SubmitFailed(r.error.message)
         ELSE Proceed("create", "image_url", r.url)

ReportCreated(backend) ==
  /\ sub.pc = "create"
  /\ LET r == createReport(CreateRequest(sub), backend)
     IN  IF r.error # NoObject THEN SubmitFailed(r.error.message)
         ELSE SubmitSucceeded

\* catch (err) { setSubmitError(t('errors.submit_failed')) } finally
SubmitThrew ==
  /\ sub.pc # "none"
  /\ SubmitFailed("errors.submit_failed")

----------------------------------------------------------------------------

Next ==
  \/ \E outcome \in {"denied", "refused", "started"} : handleStartRecording(outcome)
  \/ \E blob \in RecorderBlobs : handleStopRecording(blob)
  \/ \E blob \in RecorderBlobs : RecorderAutoStop(blob)
  \/ handleRetryRecording
  \/ \E type \in ReportTypes : setReportType(type)
  \/ \E fix \in GeoFixes : GeoSuccess(fix)
  \/ \E code \in GeoErrorCodes : GeoFailure(code)
  \/ handleToggleManualLocation
  \/ ConfirmLocation
  \/ \E pos \in ManualPicks : PickLocation(pos)
  \/ RetryAutoCapture
  \/ \E file \in PhotoFiles, user \in SessionUsers, stored \in VoiceUsers :
       handlePhotoSelected(file, user, stored)
  \/ \E user \in SessionUsers, stored \in VoiceUsers : handlePhotoSkipped(user, stored)
  \/ SheetDismissed
  \/ SheetClosed
  \/ \E file \in PhotoFiles : selectImage(file)
  \/ removeImage
  \/ \E user \in SessionUsers, stored \in VoiceUsers : SubmitButton(user, stored)
  \/ CloseSuccess
  \/ \E backend \in StorageOutcomes : AudioUploaded(backend)
  \/ \E backend \in StorageOutcomes : ImageUploaded(backend)
  \/ \E backend \in InsertOutcomes : ReportCreated(backend)
  \/ SubmitThrew

Spec == Init /\ [][Next]_vars

\* The page with what happens without the user: a position request in flight
\* is answered, and the call a submission waits for returns.
PageFairness ==
  /\ WF_vars(\/ \E fix \in GeoFixes : GeoSuccess(fix)
             \/ \E code \in GeoErrorCodes : GeoFailure(code))
  /\ WF_vars(\/ \E backend \in StorageOutcomes : AudioUploaded(backend)
             \/ \E backend \in StorageOutcomes : ImageUploaded(backend)
             \/ \E backend \in InsertOutcomes : ReportCreated(backend)
             \/ SubmitThrew)

SpecFair == Spec /\ PageFairness

----------------------------------------------------------------------------
(* storageApi and reportApi called on their own: any caller, any argument *)

DeclaredAudioTypes ==
  { <<>>, <<"audio/webm">>, <<"audio/webm", "codecs=opus">>,
    <<"audio/webm ", "codecs=opus">>, <<"audio/ogg", "codecs=opus">>,
    <<"audio/mp4", "codecs=mp4a.40.2">>, <<"audio/mp4">>, <<"audio/mpeg">>,
    <<"audio/wav">>, <<" audio/webm">>, <<"image/jpeg">>,
    <<"text/plain", "charset=utf-8">> }

DeclaredImageTypes ==
  { <<>>, <<"image/jpeg">>, <<"image/png">>, <<"image/webp">>, <<"image/gif">>,
    <<"image/jpeg", "charset=binary">>, <<"audio/webm">> }

\* files handed to uploadReportAudio, sizes in MB
AudioFiles ==
  {NoObject} \cup
  [ type : DeclaredAudioTypes, size : {1, 10, 11},
    name : {<<>>, <<"audio-T", "webm">>, <<"memo", "mp3">>} ]

\* blobs the recorder can seal
SealedBlobs == [ type : DeclaredAudioTypes, size : {1, 11}, name : {<<>>} ]

\* files handed to uploadReportImage, sizes in MB
ImageFiles ==
  {NoObject} \cup
  [ type : DeclaredImageTypes, size : {2, 5, 8},
    name : {<<"photo", "jpg">>, <<"scan", "2024", "png">>} ]
  \* a Blob handed over as it is: it has no name
  \cup { [type |-> <<"image/jpeg">>, size |-> 2, name |-> <<>>] }

\* reportData handed to createReport: a field that is undefined is left out
ReportFields(type, withImage) ==
  [ type |-> type, description |-> NoValue, commune_id |-> "dakar",
    phone |-> "770000001", citizen_name |-> "Fatou Sow",
    audio_url |-> PublicUrl("report-audio", "records/temp-T-T.webm"),
    image_url |-> IF withImage THEN PublicUrl("report-images", "reports/temp-T-T.jpg")
                  ELSE NoValue ]

Coordinate(field, values) ==
  {<<>>} \cup { [f \in {field} |-> v] : v \in values }

ReportDatas ==
  {NoObject} \cup
  { ReportFields(type, withImage) @@ lat @@ lng :
      type \in {"", "voirie"}, withImage \in BOOLEAN,
      lat \in Coordinate("latitude", {-90, -1, 0, 14, 90}),
      lng \in Coordinate("longitude", {-180, -17, 0, 1, 180}) }

\* one call of uploadReportAudio
ApiUploadAudio(file, backend) ==
  /\ api' = [ op      |-> "uploadReportAudio",
              arg     |-> file,
              call    |-> uploadReportAudioCall(file),
              backend |-> IF "upload" \in DOMAIN uploadReportAudioCall(file)
                            THEN backend ELSE NoObject,
              result  |-> uploadReportAudio(file, backend) ]
  /\ UNCHANGED <<pageVars, authVars, clockVars, geo>>

\* handleSubmit's conversion of the sealed blob followed by the upload
ApiSubmitAudio(blob, backend) ==
  /\ api' = [ op      |-> "submitAudio",
              arg     |-> blob,
              call    |-> uploadReportAudioCall(audioFile(blob)),
              backend |-> IF "upload" \in DOMAIN uploadReportAudioCall(audioFile(blob))
                            THEN backend ELSE NoObject,
              result  |-> uploadReportAudio(audioFile(blob), backend) ]
  /\ UNCHANGED <<pageVars, authVars, clockVars, geo>>

\* one call of uploadReportImage
ApiUploadImage(file, backend) ==
  /\ api' = [ op      |-> "uploadReportImage",
              arg     |-> file,
              call    |-> uploadReportImageCall(file),
              backend |-> IF "upload" \in DOMAIN uploadReportImageCall(file)
                            THEN backend ELSE NoObject,
              result  |-> uploadReportImage(file, backend) ]
  /\ UNCHANGED <<pageVars, authVars, clockVars, geo>>

\* one call of createReport
ApiCreateReport(reportData, backend) ==
  /\ api' = [ op      |-> "createReport",
              arg     |-> reportData,
              call    |-> createReportCall(reportData),
              backend |-> IF "insert" \in DOMAIN createReportCall(reportData)
                            THEN backend ELSE NoObject,
              result  |-> createReport(reportData, backend) ]
  /\ UNCHANGED <<pageVars, authVars, clockVars, geo>>

\* reportService.submitReport as one call: the audio upload, the image upload
\* when the payload has an image, then createReport with the URLs; the first
\* error is returned.  `backend` holds the answers of the calls it made.
submitReport(data, audioBackend, imageBackend, insertBackend) ==
  LET audio   == uploadReportAudio(data.audioBlob, audioBackend)
      image   == IF data.imageFile # NoObject
                   THEN uploadReportImage(data.imageFile, imageBackend)
                   ELSE [url |-> NoValue, path |-> NoValue, error |-> NoObject]
      request == CreateRequest([payload |-> data, audio_url |-> audio.url,
                                image_url |-> image.url])
  IN  IF audio.error # NoObject
        THEN [ result  |-> [data |-> NoObject, error |-> audio.error],
               call    |-> [returned |-> audio],
               backend |-> [audio |-> audioBackend] ]
      ELSE IF image.error # NoObject
        THEN [ result  |-> [data |-> NoObject, error |-> image.error],
               call    |-> [returned |-> image],
               backend |-> [audio |-> audioBackend, image |-> imageBackend] ]
      ELSE [ result  |-> createReport(request, insertBackend),
             call    |-> createReportCall(request),
             backend |-> IF data.imageFile # NoObject
                           THEN [audio |-> audioBackend, image |-> imageBackend,
                                 insert |-> insertBackend]
                           ELSE [audio |-> audioBackend, insert |-> insertBackend] ]

\* the payloads handleSubmit builds from a ready draft
ReadyPayloads ==
  { submitData(type, pos, blob, photo, user, NoObject) :
      type \in ReportTypes,
      pos \in { [lat |-> fix.latitude, lng |-> fix.longitude] : fix \in GeoFixes }
                \cup ManualPicks,
      blob \in RecorderBlobs, photo \in {NoObject} \cup PhotoFiles,
      user \in SessionUsers }

\* one call of reportService.submitReport
ApiSubmitReport(data, audioBackend, imageBackend, insertBackend) ==
  /\ LET r == submitReport(data, audioBackend, imageBackend, insertBackend)
     IN  api' = [ op |-> "submitReport", arg |-> data, call |-> r.call,
                  backend |-> r.backend, result |-> r.result ]
  /\ UNCHANGED <<pageVars, authVars, clockVars, geo>>

NextApi ==
  \/ \E data \in ReadyPayloads, audioBackend \in StorageOutcomes,
        imageBackend \in StorageOutcomes, insertBackend \in InsertOutcomes :
       ApiSubmitReport(data, audioBackend, imageBackend, insertBackend)
  \/ \E file \in AudioFiles, backend \in StorageOutcomes : ApiUploadAudio(file, backend)
  \/ \E blob \in SealedBlobs, backend \in StorageOutcomes : ApiSubmitAudio(blob, backend)
  \/ \E file \in ImageFiles, backend \in StorageOutcomes : ApiUploadImage(file, backend)
  \/ \E reportData \in ReportDatas, backend \in InsertOutcomes :
       ApiCreateReport(reportData, backend)

SpecApi == Init /\ [][NextApi]_vars

----------------------------------------------------------------------------
(* AuthProvider: the listener, checkAuth, login and logout *)

Without(seq, i) == [j \in 1..(Len(seq) - 1) |-> IF j < i THEN seq[j] ELSE seq[j + 1]]

Emit(event, s) ==
  /\ Len(events) < MaxEvents
  /\ events' = Append(events, Notification(event, s))

\* ---- the auth client

\* the notification the client emits once the listener is subscribed
InitialSession ==
  /\ ~isInitialized /\ events = <<>>
  /\ Emit("INITIAL_SESSION", session)
  /\ UNCHANGED <<pageVars, api, clockVars, geo, authUser, loading, authError, hasSession,
                 isInitialized, session, checks, authOp, lastEvent, cleared>>

\* the session ends outside this page: other tab, expiry
SessionExpired ==
  /\ session # NoObject
  /\ session' = NoObject
  /\ Emit("SIGNED_OUT", NoObject)
  /\ UNCHANGED <<pageVars, api, clockVars, geo, authUser, loading, authError, hasSession,
                 isInitialized, checks, authOp, lastEvent, cleared>>

TokenRefreshed ==
  /\ session # NoObject
  /\ Emit("TOKEN_REFRESHED", session)
  /\ UNCHANGED <<pageVars, api, clockVars, geo, authUser, loading, authError, hasSession,
                 isInitialized, session, checks, authOp, lastEvent, cleared>>

\* ---- the onAuthStateChange listener

\* the listener that skips no notification
SkipsEvent_Never == FALSE

\* if (!isInitialized.current)
SkipsEvent == ~isInitialized

AuthStateChanged ==
  /\ events # <<>>
  /\ LET e       == Head(events)
         skip    == SkipsEvent
         out     == ~skip /\ e.event = "SIGNED_OUT"
         refresh == ~skip /\ e.event = "TOKEN_REFRESHED" /\ e.session # NoObject
     IN  /\ refresh => Len(checks) < MaxChecks
         /\ events' = Tail(events)
         /\ lastEvent' = [event |-> e.event, first |-> ~isInitialized]
         /\ isInitialized' = TRUE
         /\ authUser' = IF out THEN NoObject ELSE authUser
         /\ hasSession' = IF refresh THEN TRUE ELSE IF out THEN FALSE ELSE hasSession
         \* checkAuth() up to its first await
         /\ loading' = IF refresh THEN TRUE ELSE loading
         /\ checks' = IF refresh THEN Append(checks, NewCheck("refresh"))
                      ELSE IF out
                        THEN [i \in DOMAIN checks |-> [checks[i] EXCEPT !.stale = TRUE]]
                      ELSE checks
         /\ cleared' = IF out THEN TRUE ELSE cleared
  /\ UNCHANGED <<pageVars, api, clockVars, geo, authError, session, authOp>>

\* ---- checkAuth

\* getSession() answered or threw
checkAuthGotSession(i, outcome) ==
  /\ i \in DOMAIN checks
  /\ checks[i].pc = "getSession"
  /\ IF outcome = "answered" /\ session # NoObject
       THEN /\ hasSession' = TRUE
            /\ checks' = [checks EXCEPT ![i] = [pc |-> "getCurrentUser",
                                                origin |-> @.origin, stale |-> @.stale,
                                                session |-> session]]
            /\ cleared' = IF checks[i].stale THEN cleared ELSE FALSE
            /\ UNCHANGED <<authUser, loading>>
       ELSE /\ hasSession' = FALSE
            /\ authUser' = NoObject
            /\ loading' = FALSE
            /\ checks' = Without(checks, i)
            /\ UNCHANGED cleared
  /\ UNCHANGED <<pageVars, api, clockVars, geo, authError, isInitialized, session, events,
                 authOp, lastEvent>>

\* authService.getCurrentUser(): the profile of the session the client holds
\* when it is asked, null without session or on any error
getCurrentUser(outcome) ==
  IF session # NoObject /\ outcome = "profile"
    THEN [success |-> TRUE, user |-> AuthProfile]
    ELSE [success |-> TRUE, user |-> NoObject]

\* getCurrentUser() answered
checkAuthGotUser(i, outcome) ==
  /\ i \in DOMAIN checks
  /\ checks[i].pc = "getCurrentUser"
  /\ LET result == getCurrentUser(outcome)
     IN  authUser' = IF result.success /\ result.user # NoObject THEN result.user
                     ELSE MinimalProfile(checks[i].session)
  /\ loading' = FALSE
  /\ checks' = Without(checks, i)
  /\ UNCHANGED <<pageVars, api, clockVars, geo, authError, hasSession, isInitialized,
                 session, events, authOp, lastEvent, cleared>>

\* ---- login and logout

login ==
  /\ authOp = "none"
  /\ loading' = TRUE
  /\ authError' = NoValue
  /\ authOp' = "login"
  /\ UNCHANGED <<pageVars, api, clockVars, geo, authUser, hasSession, isInitialized,
                 session, events, checks, lastEvent, cleared>>

\* authService.login() answered or threw
loginAnswered(outcome) ==
  /\ authOp = "login"
  /\ IF outcome = "success"
       THEN /\ session' = AuthSession
            /\ Emit("SIGNED_IN", AuthSession)
            /\ authUser' = AuthProfile
            /\ hasSession' = TRUE
            /\ cleared' = FALSE
            /\ UNCHANGED authError
       ELSE /\ authError' = IF outcome = "failure"
                              THEN "Email ou mot de passe incorrect"
                              ELSE "Une erreur est survenue. Veuillez reessayer"
            /\ UNCHANGED <<session, events, authUser, hasSession, cleared>>
  /\ loading' = FALSE
  /\ authOp' = "none"
  /\ UNCHANGED <<pageVars, api, clockVars, geo, isInitialized, checks, lastEvent>>

logout ==
  /\ authOp = "none"
  /\ hasSession
  /\ loading' = TRUE
  /\ authError' = NoValue
  /\ authOp' = "logout"
  /\ UNCHANGED <<pageVars, api, clockVars, geo, authUser, hasSession, isInitialized,
                 session, events, checks, lastEvent, cleared>>

\* authService.logout() answered or threw
logoutAnswered(outcome) ==
  /\ authOp = "logout"
  /\ IF outcome = "success"
       THEN /\ session' = NoObject
            /\ Emit("SIGNED_OUT", NoObject)
            /\ authUser' = NoObject
            /\ hasSession' = FALSE
            /\ UNCHANGED authError
       ELSE /\ authError' = IF outcome = "failure"
                              THEN "Erreur lors de la deconnexion"
                              ELSE "Erreur lors de la deconnexion (inattendue)"
            /\ UNCHANGED <<session, events, authUser, hasSession>>
  /\ loading' = FALSE
  /\ authOp' = "none"
  /\ UNCHANGED <<pageVars, api, clockVars, geo, isInitialized, checks, lastEvent, cleared>>

NextAuth ==
  \/ InitialSession
  \/ SessionExpired
  \/ TokenRefreshed
  \/ AuthStateChanged
  \/ \E i \in 1..MaxChecks, outcome \in {"answered", "threw"} : checkAuthGotSession(i, outcome)
  \/ \E i \in 1..MaxChecks, outcome \in {"profile", "none"} : checkAuthGotUser(i, outcome)
  \/ login
  \/ \E outcome \in {"success", "failure", "threw"} : loginAnswered(outcome)
  \/ logout
  \/ \E outcome \in {"success", "failure", "threw"} : logoutAnswered(outcome)

SpecAuth == Init /\ [][NextAuth]_vars

----------------------------------------------------------------------------
(* useAudioRecording and the position request on their clocks *)

\* useGeolocation: getCurrentPosition's default timeout, in milliseconds
GeolocationTimeoutMs == 10000
GeolocationTimeout == GeolocationTimeoutMs \div 1000

\* SignalementForm: useAudioRecording({ maxDuration: 30 })
maxDuration_Longer == 30 + 1
maxDuration == 30

\* Math.round of a non-negative quotient n / d
Round(n, d) == (2 * n + d) \div (2 * d)

recordingProgress ==
  IF maxDuration # 0
    THEN IF Round(recorder.duration * 100, maxDuration) < 100
           THEN Round(recorder.duration * 100, maxDuration)
           ELSE 100
    ELSE 0

\* handleStartRecording: requestPermission, startRecording and, when the
\* recorder started, startAutoCapture
RecStart(permission) ==
  /\ recorder.status = "idle"
  /\ IF permission = "granted"
       THEN /\ recorder' = [status |-> "recording", duration |-> 0, blob |-> NoObject]
            /\ gps' = [pending |-> TRUE, elapsed |-> 0, error |-> NoValue]
       ELSE UNCHANGED <<recorder, gps>>
  /\ UNCHANGED <<pageVars, api, authVars, geo>>

\* the recorder's timer: one more time unit recorded; at maxDuration the
\* recorder stops by itself and seals the blob
RecTick(blob) ==
  /\ recorder.status = "recording"
  /\ recorder' =
       IF recorder.duration + 1 >= maxDuration
         THEN [status |-> "stopped", duration |-> recorder.duration + 1, blob |-> blob]
         ELSE [recorder EXCEPT !.duration = @ + 1]
  /\ UNCHANGED <<gps, pageVars, api, authVars, geo>>

\* stopRecording: seals the blob while recording, nothing to do otherwise;
\* the position request is left running
RecStop(blob) ==
  /\ recorder' =
       IF recorder.status = "recording"
         THEN [recorder EXCEPT !.status = "stopped", !.blob = blob]
         ELSE recorder
  /\ UNCHANGED <<gps, pageVars, api, authVars, geo>>

\* resetRecording
RecReset ==
  /\ recorder.status # "idle"
  /\ recorder' = IdleRecorder
  /\ UNCHANGED <<gps, pageVars, api, authVars, geo>>

\* the position request's wait: it counts from the moment the device starts
\* looking for a position, so the two clocks are not aligned
GeoTick ==
  /\ gps.pending
  /\ gps' =
       IF gps.elapsed + 1 >= GeolocationTimeout
         THEN [pending |-> FALSE, elapsed |-> gps.elapsed + 1, error |-> "TIMEOUT"]
         ELSE [gps EXCEPT !.elapsed = @ + 1]
  /\ UNCHANGED <<recorder, pageVars, api, authVars, geo>>

\* the position request answers before its timeout
GeoAnswered(code) ==
  /\ gps.pending
  /\ gps' = [gps EXCEPT !.pending = FALSE, !.error = code]
  /\ UNCHANGED <<recorder, pageVars, api, authVars, geo>>

NextRec ==
  \/ \E permission \in {"granted", "denied"} : RecStart(permission)
  \/ \E blob \in RecorderBlobs : RecTick(blob)
  \/ \E blob \in RecorderBlobs : RecStop(blob)
  \/ RecReset
  \/ GeoTick
  \/ \E code \in {NoValue, "PERMISSION_DENIED", "POSITION_UNAVAILABLE"} : GeoAnswered(code)

SpecRec == Init /\ [][NextRec]_vars

----------------------------------------------------------------------------
(* useGeolocation called on its own *)

MaxIssued   == 2    \* position requests issued in one behaviour
MaxInFlight == 2    \* of which in flight at the same time

\* the switch on geoError.code
ErrorCodeOf(code) ==
  CASE code = 1 -> "PERMISSION_DENIED"
    [] code = 2 -> "POSITION_UNAVAILABLE"
    [] code = 3 -> "TIMEOUT"
    [] OTHER    -> "UNKNOWN_ERROR"

InFlight(id) == \E i \in DOMAIN geo.requests : geo.requests[i].id = id
IndexOf(id)  == CHOOSE i \in DOMAIN geo.requests : geo.requests[i].id = id
Answered(id) == SelectSeq(geo.requests, LAMBDA r : r.id # id)

\* the effect that looks for 'geolocation' in navigator
SupportEffect(inNavigator) ==
  /\ ~geo.mounted
  /\ geo' = [geo EXCEPT !.mounted = TRUE,
                        !.isSupported = inNavigator,
                        !.error = IF inNavigator THEN @ ELSE "NOT_SUPPORTED"]
  /\ UNCHANGED <<pageVars, api, authVars, clockVars>>

\* getCurrentPosition up to the call of navigator.geolocation
getCurrentPosition ==
  /\ geo.mounted
  /\ IF ~geo.isSupported
       THEN geo' = [geo EXCEPT !.error = "NOT_SUPPORTED"]
       ELSE /\ geo.issued < MaxIssued
            /\ Len(geo.requests) < MaxInFlight
            /\ geo' = [geo EXCEPT !.loading = TRUE,
                                  !.error = NoValue,
                                  !.issued = @ + 1,
                                  !.requests = Append(@, [id |-> geo.issued + 1,
                                                          elapsed |-> 0])]
  /\ UNCHANGED <<pageVars, api, authVars, clockVars>>

\* the device's wait for a position: one more time unit
PositionTimer(id) ==
  /\ InFlight(id)
  /\ geo.requests[IndexOf(id)].elapsed < GeolocationTimeout
  /\ geo' = [geo EXCEPT !.requests[IndexOf(id)].elapsed = @ + 1]
  /\ UNCHANGED <<pageVars, api, authVars, clockVars>>

\* the success callback without its setError(null)
PositionCallback_KeepsError(id, fix) ==
  /\ InFlight(id)
  /\ geo.requests[IndexOf(id)].elapsed < GeolocationTimeout
  /\ geo' = [geo EXCEPT !.position = fix,
                        !.loading = FALSE,
                        !.requests = Answered(id),
                        !.last = [id |-> id, outcome |-> "position",
                                  elapsed |-> geo.requests[IndexOf(id)].elapsed]]
  /\ UNCHANGED <<pageVars, api, authVars, clockVars>>

\* the success callback
PositionCallback(id, fix) ==
  /\ InFlight(id)
  /\ geo.requests[IndexOf(id)].elapsed < GeolocationTimeout
  /\ geo' = [geo EXCEPT !.position = fix,
                        !.loading = FALSE,
                        !.error = NoValue,
                        !.requests = Answered(id),
                        !.last = [id |-> id, outcome |-> "position",
                                  elapsed |-> geo.requests[IndexOf(id)].elapsed]]
  /\ UNCHANGED <<pageVars, api, authVars, clockVars>>

\* the error callback without its setPosition(null)
PositionErrorCallback_KeepsPosition(id, code) ==
  /\ InFlight(id)
  /\ (code = 3) <=> (geo.requests[IndexOf(id)].elapsed = GeolocationTimeout)
  /\ geo' = [geo EXCEPT !.error = ErrorCodeOf(code),
                        !.loading = FALSE,
                        !.requests = Answered(id),
                        !.last = [id |-> id, outcome |-> ErrorCodeOf(code),
                                  elapsed |-> geo.requests[IndexOf(id)].elapsed]]
  /\ UNCHANGED <<pageVars, api, authVars, clockVars>>

\* the error callback; the device reports code 3 when the timeout ran out and
\* codes 1 and 2 before
PositionErrorCallback(id, code) ==
  /\ InFlight(id)
  /\ (code = 3) <=> (geo.requests[IndexOf(id)].elapsed = GeolocationTimeout)
  /\ geo' = [geo EXCEPT !.error = ErrorCodeOf(code),
                        !.loading = FALSE,
                        !.position = NoObject,
                        !.requests = Answered(id),
                        !.last = [id |-> id, outcome |-> ErrorCodeOf(code),
                                  elapsed |-> geo.requests[IndexOf(id)].elapsed]]
  /\ UNCHANGED <<pageVars, api, authVars, clockVars>>

clearPosition ==
  /\ geo.mounted
  /\ geo' = [geo EXCEPT !.position = NoObject, !.error = NoValue, !.loading = FALSE]
  /\ UNCHANGED <<pageVars, api, authVars, clockVars>>

RequestIds == 1..MaxIssued

NextGeo ==
  \/ \E inNavigator \in BOOLEAN : SupportEffect(inNavigator)
  \/ getCurrentPosition
  \/ \E id \in RequestIds : PositionTimer(id)
  \/ \E id \in RequestIds, fix \in GeoFixes : PositionCallback(id, fix)
  \/ \E id \in RequestIds, code \in 1..3 : PositionErrorCallback(id, code)
  \/ clearPosition

\* the device counts on, and when the timeout ran out it calls back
GeoFairness ==
  \A id \in RequestIds :
    /\ WF_vars(PositionTimer(id))
    /\ WF_vars(PositionErrorCallback(id, 3))

SpecGeo == Init /\ [][NextGeo]_vars /\ GeoFairness

----------------------------------------------------------------------------
(* Properties *)

DraftReady == reportType # "" /\ audioBlob # NoObject /\ position # NoObject

\* a submit trigger can reach handleSubmit
SubmitPossible ==
  \/ variant = "inline" /\ SubmitButtonEnabled
  \/ variant = "sheet" /\ sheetLive

ValidationErrors ==
  {"errors.type_required", "errors.audio_required", "errors.position_required"}

\* the message on screen is the one of a submission that failed
SubmissionFailureShown ==
  ~isSubmitting /\ submitError \notin ValidationErrors \cup {NoValue}

\* C1: a submit trigger that arrives while a submission is in progress is
\* dropped: the submission in flight issues each of its calls (audio upload,
\* image upload, create) at most once, and a trigger is only ever dropped
\* while a submission is in progress.
C1_NoSecondSubmission ==
  /\ calls.audio <= 1 /\ calls.image <= 1 /\ calls.create <= 1
  /\ ignoredTrigger => isSubmitting /\ sub.pc # "none"

\* a trigger was dropped and the submission in flight has issued its one create
C1_Witness ==
  ignoredTrigger /\ sub.pc = "create" /\ calls.create = 1 /\ calls.audio = 1

\* C2: after a failed submission attempt the orchestrator has left
\* 'submitting', the error is shown, the draft is kept and a submit action is
\* possible again.
C2_FailedSubmissionCanRetry ==
  SubmissionFailureShown =>
    /\ step # "submitting"
    /\ SubmitPossible
    /\ audioBlob # NoObject /\ position # NoObject

\* What the forms do instead: the failed submission leaves step at
\* 'submitting' with the draft kept, and in the inline form no submit trigger
\* is ever possible again.
C2_Divergence ==
  SubmissionFailureShown =>
    /\ step = "submitting"
    /\ audioBlob # NoObject /\ position # NoObject
    /\ variant = "inline" => ~SubmitPossible

\* C3: validateData answers valid exactly when type, audio and position are
\* all present, and otherwise names the first missing field in the order type,
\* audio, position; the photo plays no part.  Stated of the draft of every
\* reachable state, and of every validation error handleSubmit records.
FirstMissing(type, blob, pos) ==
  LET missing == <<type = "", blob = NoObject, pos = NoObject>>
      code    == <<"errors.type_required", "errors.audio_required",
                   "errors.position_required">>
      first   == CHOOSE i \in 1..3 : missing[i] /\ \A j \in 1..(i - 1) : ~missing[j]
  IN  code[first]

ValidationAgrees(type, blob, pos) ==
  LET v == validateData(type, blob, pos)
  IN  /\ v.valid <=> (type # "" /\ blob # NoObject /\ pos # NoObject)
      /\ ~v.valid => v.error = FirstMissing(type, blob, pos)

C3_ValidateFirstMissing ==
  /\ [](ValidationAgrees(reportType, audioBlob, position))
  /\ [][ (submitError' # submitError /\ submitError' \in ValidationErrors)
           => /\ ~DraftReady
              /\ submitError' = FirstMissing(reportType, audioBlob, position) ]_vars

\* handleSubmit recorded the audio as missing on a draft whose position is
\* missing too
C3_Witness ==
  /\ submitError = "errors.audio_required"
  /\ reportType # "" /\ audioBlob = NoObject /\ position = NoObject

\* C4: the orchestrator is in 'submitting', and a call of the submission is in
\* flight, only with a type, an audio and a position in the draft; a submit
\* trigger on a draft that is not ready changes nothing but the error shown.
C4_SubmittingOnlyWhenReady ==
  /\ []((step = "submitting" \/ sub.pc # "none" \/ isSubmitting) => DraftReady)
  /\ [][ (~isSubmitting /\ ~DraftReady /\ submitError' \notin {submitError, NoValue})
           => /\ submitError' \in ValidationErrors
              /\ step' = step /\ sub' = sub /\ isSubmitting' = isSubmitting
              /\ calls' = calls ]_vars

\* a submit trigger on a draft without type was refused
C4_Witness ==
  /\ submitError = "errors.type_required" /\ reportType = ""
  /\ step = "photo" /\ sub.pc = "none"

\* C5: when the auto-capture of the current draft ended in failure and no
\* manual position was supplied, the draft has no position and the
\* orchestrator is not in 'submitting'.
C5_FailedCaptureBlocksSubmit ==
  (draftGeo = "failed" /\ geoError \in GeoErrorCodes /\ ~geoPending
     /\ manualPos = NoObject)
    => position = NoObject /\ step # "submitting"

\* C6: once a manual position was placed for the draft, the draft's position
\* and the position of the payload are the manual one, whatever auto-capture
\* results arrived before or arrive after.
C6_ManualPositionWins ==
  manualPos # NoObject =>
    /\ position = manualPos
    /\ sub.pc # "none" =>
         /\ sub.payload.latitude = manualPos.lat
         /\ sub.payload.longitude = manualPos.lng

\* the create call carries the manual position although a fix was captured
C6_Witness ==
  /\ manualPos # NoObject /\ geoPosition # NoObject /\ sub.pc = "create"
  /\ CreateRequest(sub).latitude = manualPos.lat
  /\ geoPosition.latitude # manualPos.lat

\* C7: with an authenticated voice identity on the device, the payload's
\* citizen_name and phone are the voice identity's, whatever the session.
C7_VoiceIdentitySuppliesNamePhone ==
  (sub.pc # "none" /\ sub.stored # NoObject /\ sub.stored.authenticated) =>
    /\ sub.payload.citizen_name = sub.stored.prenom \o " " \o sub.stored.name
    /\ sub.payload.phone = sub.stored.phone
    /\ CreateRequest(sub).citizen_name = sub.stored.prenom \o " " \o sub.stored.name
    /\ CreateRequest(sub).phone = sub.stored.phone

\* a create call in flight for a voice identity, with a session whose profile
\* has another name and phone
C7_Witness ==
  /\ sub.pc = "create" /\ sub.stored # NoObject /\ sub.stored.authenticated
  /\ sub.user # NoObject
  /\ sub.user.phone # sub.stored.phone
  /\ sub.payload.phone = sub.stored.phone

\* C8: the identity of the payload comes from one source: with an active
\* voice identity the session supplies nothing (no commune_id), without one
\* every field is the session's.
C8_IdentityNeverMixed ==
  sub.pc # "none" =>
    IF sub.stored # NoObject /\ sub.stored.authenticated
      THEN /\ sub.payload.phone = OrNull(sub.stored.phone)
           /\ sub.payload.citizen_user_id = sub.stored.id
           /\ sub.payload.commune_id = NoValue
      ELSE /\ sub.payload.phone = OrNull(Get(sub.user, "phone"))
           /\ sub.payload.citizen_name = OrNull(Get(sub.user, "name"))
           /\ sub.payload.citizen_user_id = OrNull(Get(sub.user, "id"))
           /\ sub.payload.commune_id = OrNull(Get(sub.user, "commune_id"))

\* C9: the audio upload is the first call; the image upload is issued only
\* for a payload with an image and after the audio upload returned its URL;
\* create is issued only after every applicable upload returned its URL, and
\* carries these URLs.
AudioUrl == PublicUrl("report-audio", "records/temp-T-T.webm")
ImageUrl == PublicUrl("report-images", "reports/temp-T-T.jpg")

C9_UploadsBeforeCreate ==
  /\ sub.pc = "audio" => calls = [audio |-> 1, image |-> 0, create |-> 0]
  /\ sub.pc = "image" =>
       /\ sub.payload.imageFile # NoObject
       /\ sub.audio_url = AudioUrl
       /\ calls = [audio |-> 1, image |-> 1, create |-> 0]
  /\ sub.pc = "create" =>
       /\ CreateRequest(sub).audio_url = AudioUrl
       /\ CreateRequest(sub).image_url =
            IF sub.payload.imageFile # NoObject THEN ImageUrl ELSE NoValue
       /\ calls = [audio |-> 1, create |-> 1,
                   image |-> IF sub.payload.imageFile # NoObject THEN 1 ELSE 0]
  /\ sub.pc = "none" => calls = ZeroCalls

\* create in flight after both uploads
C9_Witness ==
  sub.pc = "create" /\ sub.payload.imageFile # NoObject /\ sub.image_url = ImageUrl

\* C10: a draft that received neither an auto-capture result nor a manual
\* position has no position: after a successful submission or a reset the
\* position stays empty until one of them arrives.
C10_ResetEmptiesPosition ==
  (draftGeo = "none" /\ manualPos = NoObject) => position = NoObject

\* the stop button was pressed
StopPressed == \E blob \in RecorderBlobs : handleStopRecording(blob)

\* C21: a stop-recording action received in 'recording' leads to 'photo' when
\* the draft already has its position and to 'location' otherwise; in
\* 'location' the arrival of the position leads to 'photo'.
C21_BothArrivalOrders ==
  /\ [][ (StopPressed /\ step = "recording")
           => step' = IF position # NoObject THEN "photo" ELSE "location" ]_vars
  /\ [][ (step = "location" /\ position = NoObject /\ position' # NoObject)
           => step' = "photo" ]_vars

\* What the inline form does: C21 as stated.  What the sheet form does: the
\* stop button always leads to 'location'.
C21_Divergence ==
  /\ [][ (StopPressed /\ step = "recording")
           => step' = IF variant = "inline" /\ position # NoObject
                        THEN "photo" ELSE "location" ]_vars
  /\ [][ (variant = "inline" /\ step = "location" /\ position = NoObject
            /\ position' # NoObject)
           => step' = "photo" ]_vars

\* the auto-capture of the draft ended with a typed error
AutoCaptureFailed == ~geoPending /\ geoError \in GeoErrorCodes /\ draftGeo = "failed"

\* the control that opens the manual placement: onManualSelect of the
\* LocationConfirmationCard, which only the sheet form renders
ManualSelectShown == variant = "sheet" /\ LocationSectionShown

PickedManually == \E pos \in ManualPicks : PickLocation(pos)

\* C22: in 'location' with a failed auto-capture the manual position control
\* is on screen, and a manual placement sets the position and leads to
\* 'photo'.
C22_ManualFallbackOffered ==
  /\ []((step = "location" /\ AutoCaptureFailed) => ManualSelectShown)
  /\ [][ PickedManually => position' # NoObject /\ step' = "photo" ]_vars

\* What the forms do: the sheet form offers the manual placement; the inline
\* form shows nothing in 'location' and only a new recording or a reset
\* leaves it.
C22_Divergence ==
  /\ []((step = "location" /\ AutoCaptureFailed) => (ManualSelectShown <=> variant = "sheet"))
  /\ [][ PickedManually => position' # NoObject /\ step' = "photo" ]_vars
  /\ [][ (variant = "inline" /\ step = "location" /\ AutoCaptureFailed /\ step' # step)
           => step' \in {"recording", "idle"} ]_vars

PositionOf(fix) == [lat |-> fix.latitude, lng |-> fix.longitude]

\* the success callback of the position request delivers a fix
FixArrived == \E fix \in GeoFixes : GeoSuccess(fix)

\* C23: a stop-recording action leaves a position request in flight in
\* flight, and the fix it later delivers becomes the draft's position unless
\* the manual mode was invoked, in which case the draft's position is kept.
C23_StopKeepsAutoCapture ==
  /\ [][ (StopPressed /\ geoPending) => geoPending' ]_vars
  /\ [][ FixArrived
           => position' = IF isManualPosition THEN position
                          ELSE PositionOf(geoPosition') ]_vars

\* What the forms do: the stop button of the sheet form drops the request in
\* flight, the one of the inline form keeps it; a fix that arrives is applied
\* as specified in both.
C23_Divergence ==
  /\ [][ (StopPressed /\ geoPending) => (geoPending' <=> variant = "inline") ]_vars
  /\ [][ FixArrived
           => position' = IF isManualPosition THEN position
                          ELSE PositionOf(geoPosition') ]_vars

\* a photo was selected or removed
PhotoChanged ==
  \/ \E file \in PhotoFiles : selectImage(file)
  \/ removeImage
  \/ \E file \in PhotoFiles, user \in SessionUsers, stored \in VoiceUsers :
       handlePhotoSelected(file, user, stored)

\* C24: selecting or removing a photo starts no submission: the step stays
\* as it is and no call of a submission is issued.
C24_PhotoNeverSubmits ==
  [][ PhotoChanged => step' = step /\ sub' = sub /\ isSubmitting' = isSubmitting ]_vars

\* What the forms do: in the inline form a photo is selected and removed
\* without any other effect; in the sheet form selecting a photo on a ready
\* draft with no submission in flight starts the submission.
C24_Divergence ==
  [][ PhotoChanged =>
        IF variant = "sheet" /\ DraftReady /\ ~isSubmitting
          THEN step' = "submitting" /\ sub'.pc = "audio" /\ isSubmitting'
          ELSE step' = step /\ sub' = sub /\ isSubmitting' = isSubmitting ]_vars

StartOutcomes == {"denied", "refused", "started"}

\* C25: a start-recording action whose permission is not denied and whose
\* recorder starts leads to 'recording' with a position request issued; any
\* other start-recording action changes neither the step nor the position
\* request.  'recording' is entered in no other way.
C25_StartRecording ==
  /\ [][ \A outcome \in StartOutcomes :
           handleStartRecording(outcome) =>
             IF outcome = "started"
               THEN step' = "recording" /\ isRecording' /\ geoPending' /\ geoLoading'
               ELSE step' = step /\ isRecording' = isRecording
                    /\ UNCHANGED <<geoPosition, geoLoading, geoError, geoPending>> ]_vars
  /\ [][ (step # "recording" /\ step' = "recording")
           => handleStartRecording("started") ]_vars

\* recording has begun and the position request is in flight
C25_Witness ==
  step = "recording" /\ isRecording /\ audioBlob = NoObject /\ geoPending /\ geoLoading

\* the recorder stopped by itself: the recording is over and sealed, and the
\* form is still at 'recording'
AutoStopped == step = "recording" /\ ~isRecording /\ audioBlob # NoObject

\* C27: when the recorder stopped by itself with a sealed blob and the draft
\* has a position, the form reaches 'photo', unless the user discards the
\* recording before.
C27_AutoStopReachesPhoto ==
  (AutoStopped /\ position # NoObject) ~> (step = "photo" \/ audioBlob = NoObject)

----------------------------------------------------------------------------
(* Properties of storageApi and reportApi *)

\* the error code of what the call returned, null when there is none
ReturnedCode ==
  IF "code" \in DOMAIN api.result.error THEN api.result.error.code ELSE NoValue

\* the call went to the backend
Transmitted == api.op # "none" /\ (DOMAIN api.call) \cap {"upload", "insert"} # {}

\* C11: createReport returns MISSING_REQUIRED_FIELDS and issues no insert
\* when the type, the latitude or the longitude is absent, and only then:
\* with a type, a latitude in [-90, 90] and a longitude in [-180, 180] the
\* insert is issued.
C11_MissingFieldsOnlyWhenAbsent ==
  (api.op = "createReport" /\ api.arg # NoObject) =>
    LET absent == \/ api.arg.type = ""
                  \/ "latitude" \notin DOMAIN api.arg
                  \/ "longitude" \notin DOMAIN api.arg
    IN  /\ absent <=> ReturnedCode = "MISSING_REQUIRED_FIELDS"
        /\ absent <=> ~Transmitted

\* the declared audio types with parameters whose bare type is whitelisted
WhitelistedWithParameters ==
  { type \in DeclaredAudioTypes :
      /\ Len(type) > 1
      /\ \E a \in ALLOWED_AUDIO_TYPES :
           type[1] \in {a, a \o " ", " " \o a, " " \o a \o " "} }

\* C12: an audio type declared with parameters passes the type check of
\* uploadReportAudio exactly when its bare type is in the audio whitelist,
\* and the upload then declares the bare type.
C12_ParametersStripped ==
  (api.op = "uploadReportAudio" /\ api.arg # NoObject /\ Len(api.arg.type) > 1) =>
    /\ ReturnedCode # "INVALID_AUDIO_TYPE" <=> api.arg.type \in WhitelistedWithParameters
    /\ Transmitted => api.call.upload.contentType \in ALLOWED_AUDIO_TYPES

\* an upload issued for a type with white space before its parameters
C12_Witness ==
  /\ api.op = "uploadReportAudio" /\ api.arg # NoObject
  /\ api.arg.type = <<"audio/webm ", "codecs=opus">>
  /\ Transmitted /\ api.call.upload.contentType = "audio/webm"

\* the file extension of a bare audio type
ExtensionOfType(bare) ==
  CASE bare = "audio/webm" -> "webm"
    [] bare = "audio/ogg"  -> "ogg"
    [] bare = "audio/wav"  -> "wav"
    [] OTHER -> "mp3"

\* C13: a sealed audio blob that declares an allowed type followed by
\* parameters is accepted, uploaded under its bare type, and stored at a path
\* whose extension is the one of the bare type.
C13_ExtensionOfBareType ==
  (/\ api.op \in {"uploadReportAudio", "submitAudio"}
   /\ api.arg # NoObject /\ api.arg.name = <<>>
   /\ api.arg.type \in WhitelistedWithParameters
   /\ api.arg.size <= 10) =>
    LET bare == CHOOSE a \in ALLOWED_AUDIO_TYPES :
                  api.arg.type[1] \in {a, a \o " ", " " \o a, " " \o a \o " "}
    IN  /\ Transmitted
        /\ api.call.upload.contentType = bare
        /\ api.call.upload.filePath = "records/temp-T-T." \o ExtensionOfType(bare)

AudioTypeAccepted(type) ==
  \/ type = <<>>
  \/ Len(type) = 1 /\ type[1] \in ALLOWED_AUDIO_TYPES
  \/ type \in WhitelistedWithParameters

ImageTypeAccepted(type) == Len(type) = 1 /\ type[1] \in ALLOWED_IMAGE_TYPES

C15_DestinationMissingDistinct ==
  (/\ api.op \in {"uploadReportAudio", "uploadReportImage"}
   /\ Transmitted /\ api.backend.kind # "ok") =>
    (ReturnedCode = "BUCKET_NOT_FOUND" <=>
       (api.backend.kind = "error" /\ api.backend.message = "Bucket not found"))

\* C16: a ready draft without image whose audio upload and insert succeed is
\* submitted with success, and the stored report returned has status
\* 'pending', priority 'normal' and no image URL; the row createReport writes
\* never has a status or a priority of its own.
C16_StoredReportDefaults ==
  /\ (/\ api.op = "submitReport" /\ api.arg.imageFile = NoObject
      /\ api.backend.audio.kind = "ok"
      /\ "insert" \in DOMAIN api.backend /\ api.backend.insert.kind = "ok") =>
       /\ api.result.error = NoObject
       /\ api.result.data.status = "pending"
       /\ api.result.data.priority = "normal"
       /\ api.result.data.row.image_url = NoValue
       /\ api.result.data.row.type = api.arg.type
  /\ (api.op \in {"submitReport", "createReport"} /\ "insert" \in DOMAIN api.call) =>
       (DOMAIN api.call.insert) \cap {"status", "priority"} = {}

\* the submission of a 'voirie' draft without image returned its stored report
C16_Witness ==
  /\ api.op = "submitReport" /\ api.arg.imageFile = NoObject
  /\ api.arg.type = "voirie"
  /\ api.result.error = NoObject /\ api.result.data.status = "pending"
  /\ api.result.data.row.audio_url # NoValue

----------------------------------------------------------------------------
(* Properties of storageApi and reportApi: what a call returns *)

\* C30: a call of uploadReportAudio, uploadReportImage or createReport
\* returns, whatever its argument and whatever the backend does, a backend
\* exception included: the uploads {url, path, error} with either url and
\* path or the error non-null, createReport {data, error} with either data
\* or the error non-null.
C30_AlwaysReturnsOneOf ==
  /\ api.op \in {"uploadReportAudio", "uploadReportImage", "submitAudio"} =>
       /\ DOMAIN api.result = {"url", "path", "error"}
       /\ api.result.url = NoValue <=> api.result.error # NoObject
       /\ api.result.path = NoValue <=> api.result.url = NoValue
  /\ api.op = "createReport" =>
       /\ DOMAIN api.result = {"data", "error"}
       /\ api.result.data = NoObject <=> api.result.error # NoObject

\* the backend call of createReport threw and createReport returned an error
C30_Witness ==
  /\ api.op = "createReport" /\ Transmitted
  /\ api.backend.kind = "throw"
  /\ api.result.data = NoObject
  /\ api.result.error = [message |-> "Failed to fetch", code |-> "UNEXPECTED_ERROR"]

----------------------------------------------------------------------------
(* Properties of AuthProvider *)

\* the step hands the oldest pending notification to the listener
Handed == events # <<>> /\ events' = Tail(events)

\* the step hands a token refresh that is not the first notification
RefreshHanded ==
  Handed /\ isInitialized /\ Head(events).event = "TOKEN_REFRESHED"

\* the step resumes a checkAuth started by a token refresh
ReloadResumed ==
  \E i \in DOMAIN checks :
    /\ checks[i].origin = "refresh"
    /\ \/ checks' = Without(checks, i)
       \/ /\ Len(checks') = Len(checks)
          /\ checks'[i] # checks[i] /\ checks'[i].stale = checks[i].stale

\* C17: the first notification handed to the listener is ignored whatever
\* its kind: hasSession, user and loading are unchanged and no checkAuth is
\* started; every later notification is acted on: a sign-out clears user and
\* hasSession, a token refresh starts a checkAuth.
C17_FirstNotificationIgnored ==
  /\ [][ (Handed /\ ~isInitialized) =>
           /\ isInitialized'
           /\ UNCHANGED <<hasSession, authUser, loading, checks>> ]_vars
  /\ [][ (Handed /\ isInitialized /\ Head(events).event = "SIGNED_OUT") =>
           (~hasSession' /\ authUser' = NoObject) ]_vars
  /\ [][ RefreshHanded => Len(checks') = Len(checks) + 1 ]_vars

\* a sign-out was the first notification and left the session state alone
C17_Witness ==
  /\ lastEvent = [event |-> "SIGNED_OUT", first |-> TRUE]
  /\ hasSession /\ authUser # NoObject /\ session = NoObject

\* C18: from the processing of a sign-out notification that is not the
\* first, hasSession is false and user is null until a login succeeds or a
\* checkAuth started after the sign-out finds a session.
C18_SignOutSticks ==
  cleared => (~hasSession /\ authUser = NoObject)

\* C19: a token refresh notification that is not the first starts a
\* checkAuth and leaves hasSession as it was, when it is handed to the
\* listener and when the checkAuth it started resumes, whatever that finds.
C19_RefreshKeepsHasSession ==
  /\ [][ RefreshHanded => (Len(checks') = Len(checks) + 1 /\ hasSession' = hasSession) ]_vars
  /\ [][ (ReloadResumed /\ ~Handed) => hasSession' = hasSession ]_vars

\* C28: a profile is present only with a session: user non-null implies
\* hasSession.
C28_ProfileImpliesSession == authUser # NoObject => hasSession

----------------------------------------------------------------------------
(* Properties of the recorder *)

\* C20: the recorded duration never exceeds 30 time units: while recording it
\* is below 30, on reaching 30 the recorder is stopped with a sealed blob and
\* the progress bar is full; a step of the position request, its timeout
\* included, leaves the recorder as it is.
C20_DurationCeiling ==
  /\ [](/\ recorder.duration <= 30
        /\ recorder.status = "recording" => recorder.duration < 30
        /\ recorder.duration = 30 =>
             recorder.status = "stopped" /\ recorder.blob # NoObject
        /\ recordingProgress = 100 <=> recorder.duration = 30)
  /\ [][gps.pending /\ (gps'.elapsed > gps.elapsed \/ ~gps'.pending)
          => recorder' = recorder]_vars

\* the recorder stopped by itself at 30 although the position request had
\* timed out long before
C20_Witness ==
  /\ recorder.status = "stopped"
  /\ recorder.duration = 30
  /\ recorder.blob # NoObject
  /\ gps.error = "TIMEOUT"

----------------------------------------------------------------------------
(* Properties of useGeolocation *)

GeoTypedErrors == {"PERMISSION_DENIED", "POSITION_UNAVAILABLE", "TIMEOUT"}

====
